---- MODULE Spec2Model ----
(***************************************************************************)
(* One crawl session of web-crawler-go-backend: the recursive Crawl        *)
(* goroutines, the visited map, the fetch semaphore, the crawlHelper       *)
(* driver publishing to a Redis list, the list's expiry, and the           *)
(* lookupCrawlHandler pagination endpoint with a cursor-following reader.  *)
(***************************************************************************)
EXTENDS Integers, Sequences, FiniteSets, TLC

\* ------------------------------------------------------------ constants
\* main.go:25, the capacity of the guard channel of one session.
maxConcurrencyPerWorker == 3
\* main.go:24, the depth main passes to crawlHelper.
crawlDepth == 7

\* main.go:21, the most links Fetch returns for one page.
maxLinksScraped == 7

\* ------------------------------------------------------------ bounds
\* Depths 0..MaxDepth are tried for helperOptions.depth, besides crawlDepth.
MaxDepth == 2
\* Start indexes -1..MaxStart are tried by an arbitrary GET /crawl/{id}.
MaxStart == 3
\* Pages of up to MaxAnchors anchors, over every href, are scraped.
MaxAnchors == 2
\* Up to MaxPosts POST /crawl requests are made, of URLs of up to MaxUrlLen
\* characters.
MaxPosts == 2
MaxUrlLen == 2

\* ------------------------------------------------------------ the web
Example == "http://example.com"
Other == "http://other.org"
Third == "http://third.net"
Fourth == "http://fourth.io"
Fifth == "http://fifth.dev"
ExampleBlog == "https://blog.example.org/post"
Relative == "/about"
Mailto == "mailto:admin@other.org"
Localhost == "http://localhost/admin"
BadEscape == "http://sixth.biz/%zz"
Share == "/share?u=http://third.net"
FtpMirror == "ftp://files.fourth.io/pub/http://mirror"
SchemeRel == "//cdn.fifth.dev/?src=https://example.com"

\* What the href is made of: its scheme, whether "//" and an authority follow
\* the scheme, the labels of its host, whether "http://" or "https://" occurs
\* behind the authority, and whether it holds an invalid percent escape.
Href(scheme, slashes, host, inner, badEscape) ==
    [scheme |-> scheme, slashes |-> slashes, host |-> host, inner |-> inner,
     badEscape |-> badEscape]

Parts ==
    (Example :> Href("http", TRUE, <<"example", "com">>, FALSE, FALSE)) @@
    (Other :> Href("http", TRUE, <<"other", "org">>, FALSE, FALSE)) @@
    (Third :> Href("http", TRUE, <<"third", "net">>, FALSE, FALSE)) @@
    (Fourth :> Href("http", TRUE, <<"fourth", "io">>, FALSE, FALSE)) @@
    (Fifth :> Href("http", TRUE, <<"fifth", "dev">>, FALSE, FALSE)) @@
    (ExampleBlog :> Href("https", TRUE, <<"blog", "example", "org">>, FALSE, FALSE)) @@
    (Relative :> Href("", FALSE, <<>>, FALSE, FALSE)) @@
    (Mailto :> Href("mailto", FALSE, <<>>, FALSE, FALSE)) @@
    (Localhost :> Href("http", TRUE, <<"localhost">>, FALSE, FALSE)) @@
    (BadEscape :> Href("http", TRUE, <<"sixth", "biz">>, FALSE, TRUE)) @@
    (Share :> Href("", FALSE, <<>>, TRUE, FALSE)) @@
    (FtpMirror :> Href("ftp", TRUE, <<"files", "fourth", "io">>, TRUE, FALSE)) @@
    (SchemeRel :> Href("", TRUE, <<"cdn", "fifth", "dev">>, TRUE, FALSE))

URLs == DOMAIN Parts

\* A page is the sequence of the href values of its anchor start tags.
NoLinks == [u \in URLs |-> <<>>]

\* example.com -> other.org -> {third.net, example.com}
ChainWeb == [NoLinks EXCEPT ![Example] = <<Other>>, ![Other] = <<Third, Example>>]

\* Convergent paths, a link listed twice on one page, and cycles.
DiamondWeb ==
    [NoLinks EXCEPT ![Example] = <<Other, Third, Other>>,
                    ![Other] = <<Third>>,
                    ![Third] = <<Other, Example>>]

\* More children than the semaphore has slots.
WideWeb == [NoLinks EXCEPT ![Example] = <<Other, Third, Fourth, Fifth>>]

\* More qualifying anchors on the root page than Fetch returns links.
ManyOthers == [i \in 1 .. maxLinksScraped - 1 |-> Other]

CapWeb == [NoLinks EXCEPT ![Example] = ManyOthers \o <<Other, Third>>]

\* third.net is one link from the root and also two, by way of other.org;
\* fourth.io is found on third.net alone.
ShortcutWeb ==
    [NoLinks EXCEPT ![Example] = <<Other, Third>>,
                    ![Other] = <<Third>>,
                    ![Third] = <<Fourth>>]

\* A scene is a web and the URLs whose GET fails with a transport error.
Scene(w, b) == [web |-> w, broken |-> b]

ChainScenes == {Scene(ChainWeb, b) : b \in SUBSET {Other, Third}}

DiamondScenes == {Scene(DiamondWeb, b) : b \in {{}, {Third}}}

WideScenes == {Scene(WideWeb, {Third, Fourth, Fifth}), Scene(WideWeb, URLs \ {Example})}

CapScenes == {Scene(CapWeb, {Other})}

ShortcutScenes == {Scene(ShortcutWeb, {})}

Scenes ==
    ChainScenes \cup DiamondScenes \cup WideScenes \cup CapScenes \cup ShortcutScenes

Depths == (0 .. MaxDepth) \cup {crawlDepth}

\* The page at the link cap is crawled one level deep, the web with the
\* shortcut three levels deep.
DepthsOf(sc) ==
    IF sc \in CapScenes THEN {1}
    ELSE IF sc \in ShortcutScenes THEN {3}
    ELSE Depths

\* The pages scraped: every page of up to MaxAnchors anchors, and pages that
\* reach the link cap with such a page behind maxLinksScraped - 1 links.
RECURSIVE SeqsUpTo(_, _)
SeqsUpTo(S, n) ==
    IF n = 0 THEN {<<>>}
    ELSE LET shorter == SeqsUpTo(S, n - 1)
         IN shorter \cup {Append(q, x) : q \in shorter, x \in S}

ShortPages == SeqsUpTo(URLs \ {Example, Third, Fourth, Fifth}, MaxAnchors)

LongPages == {ManyOthers \o q : q \in SeqsUpTo({Other, Relative}, MaxAnchors)}

ScrapeScenes ==
    {Scene([NoLinks EXCEPT ![Example] = page], {}) : page \in ShortPages \cup LongPages}

VARIABLES
    proc,       \* the process: the clock of the HTTP handlers, the command
                \* channel, the 202 responses and the sessions main started
    scene,      \* the web: what Fetch finds at each URL, and which GETs fail
    rootDepth,  \* helperOptions.depth
    invs,       \* the Crawl invocations, keyed by their path from the root
    visited,    \* urlMap.v: the URLs mapped to true
    guard,      \* number of tokens in the guard channel
    clock,      \* time.Since(startTime), in ticks
    driver,     \* crawlHelper: its position and the node it received
    rdb,        \* the session's Redis key: the list and whether it has a TTL
    hist,       \* history: flip results, Fetch calls, and every RPush with the
                \* invocation whose node it was
    reader,     \* the front end following next cursors from startIndex 0
    poll        \* one GET /crawl/{id}?startIndex= request at a time

vars == <<proc, scene, rootDepth, invs, visited, guard, clock, driver, rdb, hist, reader, poll>>

\* ------------------------------------------------------------ JSON
\* A marshalled value is the JSON object, a function from its keys.
MarshalGraphNode(n) ==
    [Parent |-> n.Parent, Children |-> n.Children, TimeFound |-> n.TimeFound,
     Depth |-> n.Depth]

MarshalSentinel(s) == [DoneMessage |-> s.DoneMessage]

FieldOr(raw, key, zero) == IF key \in DOMAIN raw THEN raw[key] ELSE zero

\* json.Unmarshal into a graphNode: keys that are no field of the struct are
\* ignored, fields with no key keep their zero value.
UnmarshalGraphNode(raw) ==
    [Parent |-> FieldOr(raw, "Parent", ""),
     Children |-> FieldOr(raw, "Children", <<>>),
     TimeFound |-> FieldOr(raw, "TimeFound", 0),
     Depth |-> FieldOr(raw, "Depth", 0)]

\* json.Unmarshal fails on malformed JSON or a key whose value has another
\* type than the field; the list holds only objects written by json.Marshal
\* of a graphNode or a finishSentinel, whose keys are disjoint.
UnmarshalGraphNodeErr(raw) == FALSE

UnmarshalSentinel(raw) == [DoneMessage |-> FieldOr(raw, "DoneMessage", "")]

UnmarshalSentinelErr(raw) == FALSE

TheSentinel == [DoneMessage |-> "true"]

\* ------------------------------------------------------------ Redis
NoKey == [list |-> <<>>, ttl |-> FALSE]

\* EXPIRE: sets the TTL of an existing key, does nothing when there is none.
RedisExpire(r) == IF Len(r.list) > 0 THEN [r EXCEPT !.ttl = TRUE] ELSE r

\* RedisRPush with a fault: LPUSH, which inserts at the head.
RedisLPush(r, v) == [r EXCEPT !.list = <<v>> \o @]

\* RPUSH: appends at the tail, creating the key (with no TTL) when missing.
RedisRPush(r, v) == [r EXCEPT !.list = Append(@, v)]

RedisLLen(r) == Len(r.list)

\* LRANGE key start stop: zero-based, inclusive, negative indexes count from
\* the tail, out-of-range indexes are clamped.
RedisLRange(r, start, stop) ==
    LET n == Len(r.list)
        s0 == IF start < 0 THEN n + start ELSE start
        e0 == IF stop < 0 THEN n + stop ELSE stop
        s == IF s0 < 0 THEN 0 ELSE s0
        e == IF e0 >= n THEN n - 1 ELSE e0
    IN IF s > e \/ s >= n THEN <<>> ELSE SubSeq(r.list, s + 1, e + 1)

\* ------------------------------------------------------------ Crawl
Root == <<>>

ParentOf(p) == SubSeq(p, 1, Len(p) - 1)

NewInv(url, depth) ==
    [url |-> url, depth |-> depth, pc |-> "entered", urls |-> <<>>,
     timeFound |-> 0, numFin |-> 0, doneCh |-> 0, closed |-> FALSE,
     path |-> "", signals |-> 0]

\* flip with a fault: the map is read and never written.
flipNoSet(v, name) == [result |-> name \in v, v |-> v]

\* SafeMap.flip, under the lock.
flip(v, name) == [result |-> name \in v, v |-> v \cup {name}]

\* DepthExhausted with a fault: depth 0 is still crawled.
DepthExhaustedBelowZero(depth) == depth < 0

\* main.go:79
DepthExhausted(depth) == depth <= 0

\* ChildDepth with a fault: the depth is handed down undiminished.
ChildDepthSame(depth) == depth

\* main.go:104
ChildDepth(depth) == depth - 1

\* BarrierSatisfied with a fault: the loop breaks without counting.
BarrierNoWait(numFin, numToExplore) == TRUE

\* BarrierSatisfied with a fault: one signal too many is awaited.
BarrierOneMore(numFin, numToExplore) == numFin > numToExplore

\* main.go:109
BarrierSatisfied(numFin, numToExplore) == numFin >= numToExplore

\* GuardHasRoom with a fault: the channel holds one token more.
GuardHasRoomOneMore(g) == g <= maxConcurrencyPerWorker

\* main.go:127 and 198: a send on the guard channel goes through while it
\* holds fewer than maxConcurrencyPerWorker tokens.
GuardHasRoom(g) == g < maxConcurrencyPerWorker

\* main.go:234: regexp.Match of `https?://.*`, which is not anchored: it finds
\* "http://" or "https://" anywhere in the value.
isHTTP(val) ==
    \/ Parts[val].scheme \in {"http", "https"} /\ Parts[val].slashes
    \/ Parts[val].inner

\* getDomainFromURL: url.Parse fails, or the host has fewer than two labels.
getDomainFromURLErr(urlToParse) ==
    Parts[urlToParse].badEscape \/ Len(Parts[urlToParse].host) < 2

getDomainFromURL(urlToParse) ==
    IF getDomainFromURLErr(urlToParse) THEN ""
    ELSE Parts[urlToParse].host[Len(Parts[urlToParse].host) - 1]

\* main.go:219-260: the tokenizer loop from anchor i on; it returns at the
\* end of the document or when maxLinksScraped links are scraped.
RECURSIVE scrape(_, _, _, _)
scrape(domain, page, i, results) ==
    IF i > Len(page) THEN [results |-> results, path |-> "eof"]
    ELSE IF /\ isHTTP(page[i])
            /\ ~getDomainFromURLErr(page[i])
            /\ domain # getDomainFromURL(page[i])
         THEN IF Len(results) + 1 >= maxLinksScraped
              THEN [results |-> Append(results, page[i]), path |-> "cap"]
              ELSE scrape(domain, page, i + 1, Append(results, page[i]))
         ELSE scrape(domain, page, i + 1, results)

\* realFetcher.Fetch: the error of client.Get (a transport error, or a scheme
\* it does not support), or the links scraped.
FetchErr(sc, url) == url \in sc.broken \/ Parts[url].scheme \notin {"http", "https"}

FetchLinks(sc, url) == scrape(getDomainFromURL(url), sc.web[url], 1, <<>>).results

\* The return statement Fetch leaves by.
FetchPath(sc, url) ==
    IF FetchErr(sc, url) THEN "error"
    ELSE scrape(getDomainFromURL(url), sc.web[url], 1, <<>>).path

\* CrawlAfterFetch with a fault: the error of Fetch is not looked at.
CrawlAfterFetchIgnoreErr(err) == "send"

\* main.go:89-94: Crawl returns on an error and sends a graphNode otherwise.
CrawlAfterFetch(err) == IF err THEN "notify" ELSE "send"

Bump(f, k) == [f EXCEPT ![k] = @ + 1]

\* Crawl up to the Fetch call: the depth test and the flip.
Enter(p) ==
    /\ p \in DOMAIN invs
    /\ invs[p].pc = "entered"
    /\ IF DepthExhausted(invs[p].depth)
       THEN /\ invs' = [invs EXCEPT ![p].pc = "notify"]
            /\ UNCHANGED <<visited, hist>>
       ELSE LET r == flip(visited, invs[p].url)
            IN /\ visited' = r.v
               /\ IF r.result
                  THEN /\ invs' = [invs EXCEPT ![p].pc = "notify"]
                       /\ hist' = [hist EXCEPT !.flipTrue = Bump(@, invs[p].url)]
                  ELSE /\ invs' = [invs EXCEPT ![p].pc = "acquire"]
                       /\ hist' = [hist EXCEPT !.flipFalse = Bump(@, invs[p].url),
                                               !.fetchCalls = Bump(@, invs[p].url)]
    /\ UNCHANGED <<proc, scene, rootDepth, guard, clock, driver, rdb, reader, poll>>

\* Fetch: f.guard <- struct{}{}
Acquire(p) ==
    /\ p \in DOMAIN invs
    /\ invs[p].pc = "acquire"
    /\ GuardHasRoom(guard)
    /\ guard' = guard + 1
    /\ invs' = [invs EXCEPT ![p].pc = "fetching"]
    /\ UNCHANGED <<proc, scene, rootDepth, visited, clock, driver, rdb, hist, reader, poll>>

\* Fetch returns (the deferred <-f.guard runs), with a transport error or
\* with the links; Crawl evaluates the graphNode it is about to send.
FetchReturn(p) ==
    /\ p \in DOMAIN invs
    /\ invs[p].pc = "fetching"
    /\ guard' = guard - 1
    /\ IF FetchErr(scene, invs[p].url)
       THEN /\ invs' = [invs EXCEPT ![p].pc = CrawlAfterFetch(TRUE),
                                    ![p].path = FetchPath(scene, invs[p].url)]
            /\ UNCHANGED clock
       ELSE /\ invs' = [invs EXCEPT ![p].pc = CrawlAfterFetch(FALSE),
                                    ![p].path = FetchPath(scene, invs[p].url),
                                    ![p].urls = FetchLinks(scene, invs[p].url),
                                    ![p].timeFound = clock]
            /\ clock' = clock + 1
    /\ UNCHANGED <<proc, scene, rootDepth, visited, driver, rdb, hist, reader, poll>>

\* The invocations of invs after p has run its loop of go Crawl(u, depth-1, ...).
Spawned(p) ==
    LET kids == {Append(p, k) : k \in 1 .. Len(invs[p].urls)}
    IN [q \in DOMAIN invs \cup kids |->
          IF q \in kids
          THEN NewInv(invs[p].urls[q[Len(q)]], ChildDepth(invs[p].depth))
          ELSE IF q = p THEN [invs[p] EXCEPT !.pc = "wait"]
          ELSE invs[q]]

\* resultsChan <- graphNode{...}: graphCh is unbuffered, so the send
\* completes when crawlHelper's select receives it. Then
\* doneCh := make(chan struct{}, len(urls)) and one go Crawl per link.
SendResult(p) ==
    /\ p \in DOMAIN invs
    /\ invs[p].pc = "send"
    /\ driver.pc = "select"
    /\ driver' = [pc |-> "push", inv |-> p,
                  node |-> [Parent |-> invs[p].url, Children |-> invs[p].urls,
                            TimeFound |-> invs[p].timeFound, Depth |-> invs[p].depth]]
    /\ invs' = Spawned(p)
    /\ UNCHANGED <<proc, scene, rootDepth, visited, guard, clock, rdb, hist, reader, poll>>

\* <-doneCh; numFin++
WaitRecv(p) ==
    /\ p \in DOMAIN invs
    /\ invs[p].pc = "wait"
    /\ ~BarrierSatisfied(invs[p].numFin, Len(invs[p].urls))
    /\ invs[p].doneCh > 0
    /\ invs' = [invs EXCEPT ![p].doneCh = @ - 1, ![p].numFin = @ + 1]
    /\ UNCHANGED <<proc, scene, rootDepth, visited, guard, clock, driver, rdb, hist, reader, poll>>

\* break; close(doneCh)
WaitBreak(p) ==
    /\ p \in DOMAIN invs
    /\ invs[p].pc = "wait"
    /\ BarrierSatisfied(invs[p].numFin, Len(invs[p].urls))
    /\ invs' = [invs EXCEPT ![p].closed = TRUE, ![p].pc = "notify"]
    /\ UNCHANGED <<proc, scene, rootDepth, visited, guard, clock, driver, rdb, hist, reader, poll>>

\* The deferred parentChan <- struct{}{} of a child: the parent's doneCh is
\* buffered to len(urls).
NotifyParent(p) ==
    /\ p \in DOMAIN invs
    /\ p # Root
    /\ invs[p].pc = "notify"
    /\ LET q == ParentOf(p)
       IN /\ ~invs[q].closed
          /\ invs[q].doneCh < Len(invs[q].urls)
          /\ invs' = [invs EXCEPT ![p].pc = "done", ![p].signals = @ + 1,
                                  ![q].doneCh = @ + 1]
    /\ UNCHANGED <<proc, scene, rootDepth, visited, guard, clock, driver, rdb, hist, reader, poll>>

\* The deferred send of the root: crawlHelper's doneCh is unbuffered, so it
\* completes when the select takes the case <-doneCh.
NotifyDriver ==
    /\ Root \in DOMAIN invs
    /\ invs[Root].pc = "notify"
    /\ driver.pc = "select"
    /\ invs' = [invs EXCEPT ![Root].pc = "done", ![Root].signals = @ + 1]
    /\ driver' = [driver EXCEPT !.pc = "sentinel"]
    /\ UNCHANGED <<proc, scene, rootDepth, visited, guard, clock, rdb, hist, reader, poll>>

\* ------------------------------------------------------------ crawlHelper
NoNode == [Parent |-> "", Children |-> <<>>, TimeFound |-> 0, Depth |-> 0]

\* The origin recorded in hist.pushed for the sentinel.
FromDriver == <<0>>

\* main.go:121-136: the defensive Expire, the channels, go Crawl(root).
DriverStart ==
    /\ driver.pc = "start"
    /\ rdb' = RedisExpire(rdb)
    /\ invs' = (Root :> NewInv(Example, rootDepth))
    /\ driver' = [driver EXCEPT !.pc = "select"]
    /\ UNCHANGED <<proc, scene, rootDepth, visited, guard, clock, hist, reader, poll>>

\* case newNode := <-graphCh: json.Marshal and RPush.
DriverPush ==
    /\ driver.pc = "push"
    /\ rdb' = RedisRPush(rdb, MarshalGraphNode(driver.node))
    /\ hist' = [hist EXCEPT !.pushed = Append(@, [inv |-> driver.inv,
                                                   node |-> driver.node])]
    /\ driver' = [pc |-> "select", inv |-> Root, node |-> NoNode]
    /\ UNCHANGED <<proc, scene, rootDepth, invs, visited, guard, clock, reader, poll>>

\* case <-doneCh: RPush of the marshalled finishSentinel.
DriverSentinel ==
    /\ driver.pc = "sentinel"
    /\ rdb' = RedisRPush(rdb, MarshalSentinel(TheSentinel))
    /\ hist' = [hist EXCEPT !.pushed = Append(@, [inv |-> FromDriver, node |-> NoNode])]
    /\ driver' = [driver EXCEPT !.pc = "expire"]
    /\ UNCHANGED <<proc, scene, rootDepth, invs, visited, guard, clock, reader, poll>>

\* The Expire after the sentinel, then return (the deferred closes run).
DriverExpire ==
    /\ driver.pc = "expire"
    /\ rdb' = RedisExpire(rdb)
    /\ driver' = [driver EXCEPT !.pc = "returned"]
    /\ UNCHANGED <<proc, scene, rootDepth, invs, visited, guard, clock, hist, reader, poll>>

\* crawlResultsTTL seconds have passed since the last Expire: Redis deletes
\* the key.
KeyExpires ==
    /\ rdb.ttl
    /\ rdb' = NoKey
    /\ UNCHANGED <<proc, scene, rootDepth, invs, visited, guard, clock, driver, hist, reader, poll>>

\* ------------------------------------------------------------ lookupCrawlHandler
\* RangeStop with a fault: the last record of the list is left out.
RangeStopShort(listLen) == listLen - 2

\* server.go:140, the stop index handed to LRange.
RangeStop(listLen) == listLen - 1

\* isFinishSentinel with a fault: DoneMessage is not looked at.
isFinishSentinelAnyObject(raw) == ~UnmarshalSentinelErr(raw)

\* server.go:167 and 179: the record unmarshals into a finishSentinel with a
\* DoneMessage.
isFinishSentinel(raw) ==
    ~UnmarshalSentinelErr(raw) /\ UnmarshalSentinel(raw).DoneMessage # ""

\* server.go:161-174: the loop over rawResults from record i on.
RECURSIVE parseResults(_, _, _)
parseResults(rawResults, i, results) ==
    IF i > Len(rawResults) THEN results
    ELSE IF UnmarshalGraphNodeErr(rawResults[i])
         THEN IF isFinishSentinel(rawResults[i])
              THEN results
              ELSE parseResults(rawResults, i + 1, results)
         ELSE parseResults(rawResults, i + 1,
                           Append(results, UnmarshalGraphNode(rawResults[i])))

\* server.go:149, the cursor of an empty response.
EmptyNextIndex(startIndex) == startIndex

\* NextIndex with a fault: the start index is forgotten.
NextIndexFromZero(startIndex, results) == Len(results)

\* server.go:188, the cursor of a response with edges.
NextIndex(startIndex, results) == startIndex + Len(results)

\* lookupResponse with a fault: an empty range is answered as a finished crawl.
lookupResponseEmptyIsTerminal(startIndex, rawResults) ==
    IF Len(rawResults) = 0
    THEN [status |-> 200, edges |-> <<>>, links |-> {}]
    ELSE LET results == parseResults(rawResults, 1, <<>>)
         IN IF isFinishSentinel(rawResults[Len(rawResults)])
            THEN [status |-> 200, edges |-> results, links |-> {}]
            ELSE [status |-> 200, edges |-> results,
                  links |-> {NextIndex(startIndex, results)}]

\* server.go:146-196: the response, links being the set holding the next
\* cursor when _links.next is present.
lookupResponse(startIndex, rawResults) ==
    IF Len(rawResults) = 0
    THEN [status |-> 200, edges |-> <<>>, links |-> {EmptyNextIndex(startIndex)}]
    ELSE LET results == parseResults(rawResults, 1, <<>>)
         IN IF isFinishSentinel(rawResults[Len(rawResults)])
            THEN [status |-> 200, edges |-> results, links |-> {}]
            ELSE [status |-> 200, edges |-> results,
                  links |-> {NextIndex(startIndex, results)}]

NoResponse == [status |-> 0, edges |-> <<>>, links |-> {}]

IdlePoll ==
    [pc |-> "idle", startIndex |-> 0, listLen |-> 0, rawResults |-> <<>>,
     resp |-> NoResponse, afterSentinel |-> FALSE, lenAtRange |-> 0]

SentinelPushed == \E i \in 1 .. Len(hist.pushed) : hist.pushed[i].inv = FromDriver

\* server.go:131-137: the handler up to its LLen.
Request(startIndex) ==
    /\ poll' = [IdlePoll EXCEPT !.pc = "llen", !.startIndex = startIndex,
                                !.listLen = RedisLLen(rdb),
                                !.afterSentinel = SentinelPushed]
    /\ UNCHANGED <<proc, scene, rootDepth, invs, visited, guard, clock, driver, rdb, hist>>

\* server.go:139-196: the LRange and the response.
Respond ==
    /\ poll.pc = "llen"
    /\ LET rawResults == RedisLRange(rdb, poll.startIndex, RangeStop(poll.listLen))
       IN poll' = [poll EXCEPT !.pc = "done", !.rawResults = rawResults,
                               !.resp = lookupResponse(poll.startIndex, rawResults),
                               !.lenAtRange = Len(rdb.list)]
    /\ UNCHANGED <<proc, scene, rootDepth, invs, visited, guard, clock, driver, rdb, hist, reader>>

StartIndexes == -1 .. MaxStart

\* Any client: GET /crawl/{id}?startIndex=n for any n.
ArbitraryRequest ==
    /\ poll.pc \in {"idle", "done"}
    /\ \E startIndex \in StartIndexes : Request(startIndex)
    /\ UNCHANGED reader

\* ------------------------------------------------------------ the front end
\* App.jsx:116-130, fetchCrawlResults: GET the results URL, starting at
\* startIndex 0 (server.go:98).
ReaderRequest ==
    /\ poll.pc = "idle"
    /\ ~reader.terminal
    /\ Request(reader.cursor)
    /\ UNCHANGED reader

\* App.jsx:118-128: follow _links.next when present, queue the edges.
ReaderReceive ==
    /\ poll.pc = "done"
    /\ IF poll.resp.links = {}
       THEN reader' = [reader EXCEPT !.terminal = TRUE, !.last = poll.resp.edges]
       ELSE reader' = [reader EXCEPT
                         !.cursor = CHOOSE n \in poll.resp.links : TRUE,
                         !.received = @ \o poll.resp.edges,
                         !.from = poll.startIndex,
                         !.got = Len(poll.resp.edges)]
    /\ poll' = IdlePoll
    /\ UNCHANGED <<proc, scene, rootDepth, invs, visited, guard, clock, driver, rdb, hist>>

\* ------------------------------------------------------------ the process
\* A string is the sequence of its pieces: a piece is a comma, a digit, or a
\* run of text with no comma in it.
Comma == ","

\* The URLs posted: the empty one and those of up to MaxUrlLen pieces.
PostURLs == SeqsUpTo({Example, Comma}, MaxUrlLen)

Digits == <<"0", "1", "2", "3", "4", "5", "6", "7", "8", "9">>

\* fmt.Sprintf("%d", n)
RECURSIVE FormatInt(_)
FormatInt(n) ==
    IF n < 10 THEN <<Digits[n + 1]>>
    ELSE Append(FormatInt(n \div 10), Digits[(n % 10) + 1])

\* server.go:90, fmt.Sprintf("%s,%s", req.URL, uniqueID)
Command(url, uniqueID) == url \o <<Comma>> \o uniqueID

\* strings.Split(s, ","): the fields between the commas, from piece i on.
RECURSIVE SplitFrom(_, _, _, _)
SplitFrom(str, i, field, fields) ==
    IF i > Len(str) THEN Append(fields, field)
    ELSE IF str[i] = Comma
         THEN SplitFrom(str, i + 1, <<>>, Append(fields, field))
         ELSE SplitFrom(str, i + 1, Append(field, str[i]), fields)

Split(str) == SplitFrom(str, 1, <<>>, <<>>)

\* main.go:121 and server.go:132, fmt.Sprintf("go-crawler-results-%s", id)
ResultsKey(uniqueID) == <<"go-crawler-results-">> \o uniqueID

IdleProc ==
    [now |-> 0, commandCh |-> <<>>, accepted |-> <<>>, sessions |-> <<>>,
     panicked |-> FALSE]

\* initializeCrawlHandler: 400 for the empty URL, 500 when Publish fails,
\* else the command is published and 202 names the session time.Now() gives.
PostCrawl(url, published) ==
    /\ ~proc.panicked
    /\ proc.now < MaxPosts
    /\ LET uniqueID == FormatInt(proc.now)
       IN IF url = <<>> \/ ~published
          THEN proc' = [proc EXCEPT !.now = @ + 1]
          ELSE proc' = [proc EXCEPT
                          !.now = @ + 1,
                          !.commandCh = Append(@, Command(url, uniqueID)),
                          !.accepted = Append(@, [url |-> url,
                                                  uniqueID |-> uniqueID])]
    /\ UNCHANGED <<scene, rootDepth, invs, visited, guard, clock, driver, rdb, hist, reader, poll>>

PostCrawls == \E url \in PostURLs, published \in BOOLEAN : PostCrawl(url, published)

\* main.go:187-192: one message of commandCh; indexing splitCommand[1] of a
\* payload with no comma panics, and the process ends.
Intake ==
    /\ ~proc.panicked
    /\ proc.commandCh # <<>>
    /\ LET splitCommand == Split(Head(proc.commandCh))
       IN IF Len(splitCommand) < 2
          THEN proc' = [proc EXCEPT !.commandCh = Tail(@), !.panicked = TRUE]
          ELSE proc' = [proc EXCEPT
                          !.commandCh = Tail(@),
                          !.sessions = Append(@, [url |-> splitCommand[1],
                                                  uniqueID |-> splitCommand[2],
                                                  key |-> ResultsKey(splitCommand[2]),
                                                  guard |-> 0])]
    /\ UNCHANGED <<scene, rootDepth, invs, visited, guard, clock, driver, rdb, hist, reader, poll>>

\* A Fetch call of session i takes a slot of the guard crawlHelper made for
\* that session (main.go:127, 136 and 198).
SessionAcquire(i) ==
    /\ ~proc.panicked
    /\ GuardHasRoom(proc.sessions[i].guard)
    /\ proc' = [proc EXCEPT !.sessions[i].guard = @ + 1]
    /\ UNCHANGED <<scene, rootDepth, invs, visited, guard, clock, driver, rdb, hist, reader, poll>>

\* That Fetch call returns: the deferred <-f.guard.
SessionRelease(i) ==
    /\ ~proc.panicked
    /\ proc.sessions[i].guard > 0
    /\ proc' = [proc EXCEPT !.sessions[i].guard = @ - 1]
    /\ UNCHANGED <<scene, rootDepth, invs, visited, guard, clock, driver, rdb, hist, reader, poll>>

\* ------------------------------------------------------------ specification
InitWith(scenes) ==
    /\ proc = IdleProc
    /\ scene \in scenes
    /\ rootDepth \in DepthsOf(scene)
    /\ invs = <<>>
    /\ visited = {}
    /\ guard = 0
    /\ clock = 0
    /\ driver = [pc |-> "start", inv |-> Root, node |-> NoNode]
    /\ rdb = NoKey
    /\ hist = [flipTrue |-> [u \in URLs |-> 0], flipFalse |-> [u \in URLs |-> 0],
               fetchCalls |-> [u \in URLs |-> 0], pushed |-> <<>>]
    /\ reader = [cursor |-> 0, received |-> <<>>, terminal |-> FALSE, last |-> <<>>,
                 from |-> 0, got |-> 0]
    /\ poll = IdlePoll

Init == InitWith(Scenes)

Enters == \E p \in DOMAIN invs : Enter(p)

Acquires == \E p \in DOMAIN invs : Acquire(p)

FetchReturns == \E p \in DOMAIN invs : FetchReturn(p)

SendResults == \E p \in DOMAIN invs : SendResult(p)

WaitRecvs == \E p \in DOMAIN invs : WaitRecv(p)

WaitBreaks == \E p \in DOMAIN invs : WaitBreak(p)

NotifyParents == \E p \in DOMAIN invs : NotifyParent(p)

CrawlNext ==
    \/ DriverStart
    \/ DriverPush
    \/ DriverSentinel
    \/ DriverExpire
    \/ NotifyDriver
    \/ Enters
    \/ Acquires
    \/ FetchReturns
    \/ SendResults
    \/ WaitRecvs
    \/ WaitBreaks
    \/ NotifyParents

Next == CrawlNext \/ KeyExpires

Spec == Init /\ [][Next]_vars
\* The session with a front end polling it.
ReaderScenes == ChainScenes \cup {Scene(DiamondWeb, {Third})}

ReaderInit == InitWith(ReaderScenes)

ReaderNext == CrawlNext \/ KeyExpires \/ ReaderRequest \/ Respond \/ ReaderReceive

ReaderSpec == ReaderInit /\ [][ReaderNext]_vars

\* The session with arbitrary GET requests.
PollScenes == ChainScenes \cup {Scene(DiamondWeb, {Third})}

PollInit == InitWith(PollScenes)

PollNext == CrawlNext \/ KeyExpires \/ ArbitraryRequest \/ Respond

PollSpec == PollInit /\ [][PollNext]_vars

\* The session under fair scheduling of its goroutines.
FairSpec == Init /\ [][CrawlNext]_vars /\ WF_vars(CrawlNext)

\* One session of depth 1 on each page to scrape.
ScrapeInit == InitWith(ScrapeScenes) /\ rootDepth = 1

ScrapeSpec == ScrapeInit /\ [][CrawlNext]_vars

\* The process: the HTTP handler of POST /crawl, main's intake loop, and the
\* Fetch calls of the sessions it started.
ProcInit == InitWith({Scene(WideWeb, {})}) /\ rootDepth = crawlDepth

SessionAcquires == \E i \in 1 .. Len(proc.sessions) : SessionAcquire(i)

SessionReleases == \E i \in 1 .. Len(proc.sessions) : SessionRelease(i)

ProcNext == PostCrawls \/ Intake \/ SessionAcquires \/ SessionReleases

ProcSpec == ProcInit /\ [][ProcNext]_vars
\* ------------------------------------------------------------ the stream
SentinelRecord == MarshalSentinel(TheSentinel)

Pushed == hist.pushed

\* The nodes of the edge records pushed, in the order of their RPush.
EdgeNodes ==
    LET edges == SelectSeq(Pushed, LAMBDA e : e.inv # FromDriver)
    IN [i \in 1 .. Len(edges) |-> edges[i].node]

AllInvsDone == \A p \in DOMAIN invs : invs[p].pc = "done"

\* ------------------------------------------------------------ claims
\* C1: under fair scheduling, with every Fetch and every Redis call
\* returning, the session eventually pushes the sentinel and crawlHelper
\* returns with every Crawl invocation finished; and until crawlHelper has
\* returned some step of the session is always possible (no deadlock among
\* the Crawl invocations, the guard and the select loop).
CrawlTerminates ==
    /\ <>(driver.pc = "returned" /\ SentinelPushed /\ AllInvsDone)
    /\ [](driver.pc # "returned" => ENABLED CrawlNext)

\* A session that fetched at least three pages has returned.
CrawlTerminatesWitness ==
    /\ driver.pc = "returned"
    /\ SentinelPushed
    /\ Len(EdgeNodes) >= 3

\* C2: the list holds at most one sentinel and only as its last element,
\* and no RPush of the session follows the RPush of the sentinel.
SentinelIsLast ==
    /\ \A i \in 1 .. Len(rdb.list) :
          rdb.list[i] = SentinelRecord => i = Len(rdb.list)
    /\ \A i \in 1 .. Len(Pushed) :
          Pushed[i].inv = FromDriver => i = Len(Pushed)

\* The sentinel lies in the list behind two edge records.
SentinelIsLastWitness ==
    /\ Len(rdb.list) >= 3
    /\ rdb.list[Len(rdb.list)] = SentinelRecord

\* C3: for every URL at most one flip returns false, any flip returning
\* true comes with one that returned false, Fetch is called at most once,
\* and at most one edge record pushed or in the list has the URL as Parent.
Dedup ==
    \A u \in URLs :
      /\ hist.flipFalse[u] <= 1
      /\ hist.flipTrue[u] > 0 => hist.flipFalse[u] = 1
      /\ hist.fetchCalls[u] <= 1
      /\ Cardinality({i \in 1 .. Len(EdgeNodes) : EdgeNodes[i].Parent = u}) <= 1
      /\ Cardinality({i \in 1 .. Len(rdb.list) :
                        rdb.list[i] = MarshalGraphNode(UnmarshalGraphNode(rdb.list[i]))
                        /\ rdb.list[i].Parent = u}) <= 1

\* Some URL was flipped three times, by concurrent invocations, and fetched.
DedupWitness ==
    \E u \in URLs :
      /\ hist.flipTrue[u] >= 2
      /\ hist.fetchCalls[u] = 1
      /\ \E i \in 1 .. Len(EdgeNodes) : EdgeNodes[i].Parent = u
\* C4: a reader that starts at startIndex 0 and follows the next cursors has
\* received, over its non-terminal responses, exactly the edge records at the
\* indexes below its cursor, in stream order, each once; and a non-terminal
\* response with edges moved the cursor by the number of edges it returned.
ReaderResumes ==
    /\ reader.cursor <= Len(EdgeNodes)
    /\ reader.received = SubSeq(EdgeNodes, 1, reader.cursor)
    /\ reader.got > 0 => reader.cursor = reader.from + reader.got

\* The reader, having received an edge, resumes at its cursor and is answered
\* with further edges and a next cursor, by a handler whose LRange ran after
\* an RPush that followed its LLen.
ReaderResumesWitness ==
    /\ Len(reader.received) >= 1
    /\ poll.pc = "done"
    /\ poll.startIndex = reader.cursor
    /\ poll.startIndex >= 1
    /\ poll.lenAtRange > poll.listLen
    /\ poll.resp.edges # <<>>
    /\ poll.resp.links # {}

\* The node whose json.Marshal is the raw record.
NodeOf(raw) ==
    CHOOSE n \in {EdgeNodes[i] : i \in 1 .. Len(EdgeNodes)} : MarshalGraphNode(n) = raw

RangeEndsInSentinel ==
    /\ Len(poll.rawResults) > 0
    /\ poll.rawResults[Len(poll.rawResults)] = SentinelRecord

\* C5: when the last record read is the sentinel, the edges of the response
\* are exactly the edge records read before it.
SentinelStripped ==
    (poll.pc = "done" /\ RangeEndsInSentinel) =>
      poll.resp.edges =
        [i \in 1 .. Len(poll.rawResults) - 1 |-> NodeOf(poll.rawResults[i])]

\* C6: a response has no next cursor exactly when the range read is not
\* empty and ends in the sentinel.
NoNextIffSentinelRead ==
    poll.pc = "done" => (poll.resp.links = {} <=> RangeEndsInSentinel)

\* A terminal response to a range of an edge record and the sentinel.
NoNextIffSentinelReadWitness ==
    /\ poll.pc = "done"
    /\ poll.resp.links = {}
    /\ Len(poll.rawResults) >= 2

\* No record of the list has index startIndex or more.
NoRecordFrom(list, startIndex) == \A i \in 0 .. Len(list) - 1 : i < startIndex

\* C7: a poll leaves the list as it is, and when the list holds no record at
\* startIndex or later the response is 200 with no edges and the next cursor
\* at the same startIndex (so repeating it on the same list repeats it).
IdempotentRepoll ==
    [][(poll.pc = "llen" /\ poll'.pc = "done") =>
         /\ rdb' = rdb
         /\ NoRecordFrom(rdb.list, poll.startIndex) =>
              poll'.resp = [status |-> 200, edges |-> <<>>,
                            links |-> {poll.startIndex}]]_vars

\* An empty response at a start index just behind the records of the list.
IdempotentRepollWitness ==
    /\ poll.pc = "done"
    /\ poll.startIndex >= 1
    /\ Len(rdb.list) = poll.startIndex
    /\ poll.resp.edges = <<>>
    /\ poll.resp.links = {poll.startIndex}

\* The poll began after the RPush of the sentinel, at or before its index.
PollAfterSentinel ==
    /\ poll.pc = "done"
    /\ poll.afterSentinel
    /\ poll.startIndex <= Len(Pushed) - 1

\* C8 as claimed: every poll begun after the sentinel was pushed, at a start
\* index at or before the sentinel's, reads a range ending in the sentinel.
SentinelFinalForever == PollAfterSentinel => RangeEndsInSentinel

\* C8 amended: it does so as long as the key has not expired when the range
\* is read.
SentinelFinalUntilExpiry ==
    (PollAfterSentinel /\ poll.lenAtRange > 0) => RangeEndsInSentinel

\* Such a poll, of a list of two edge records and the sentinel.
SentinelFinalWitness ==
    /\ PollAfterSentinel
    /\ poll.lenAtRange > 0
    /\ poll.startIndex >= 1
    /\ Len(Pushed) >= 3
    /\ RangeEndsInSentinel

\* The invocation an edge record of Pushed came from is not the root.
FromChild(e) == e.inv # FromDriver /\ e.inv # Root

\* C9 as claimed: no edge record has a depth at or above the root's depth.
DepthBelowRoot ==
    \A i \in 1 .. Len(EdgeNodes) : EdgeNodes[i].Depth < rootDepth

\* C9 amended: no edge record has a depth above the root's depth; the root's
\* own record has exactly that depth and every other record less.
DepthAtMostRoot ==
    \A i \in 1 .. Len(Pushed) :
      /\ Pushed[i].inv = Root => Pushed[i].node.Depth = rootDepth
      /\ FromChild(Pushed[i]) => Pushed[i].node.Depth < rootDepth

\* The root's record and a grandchild's record are pushed.
DepthAtMostRootWitness ==
    /\ \E i \in 1 .. Len(Pushed) : Pushed[i].inv = Root
    /\ \E i \in 1 .. Len(Pushed) : FromChild(Pushed[i]) /\ Len(Pushed[i].inv) = 2

\* C10: the record of a child invocation has a depth one less than the
\* record of the invocation that spawned it, and every edge record has a
\* depth of at least 1.
DepthMonotone ==
    \A i \in 1 .. Len(Pushed) :
      /\ Pushed[i].inv # FromDriver => Pushed[i].node.Depth >= 1
      /\ FromChild(Pushed[i]) =>
           \E j \in 1 .. Len(Pushed) :
             /\ Pushed[j].inv = ParentOf(Pushed[i].inv)
             /\ Pushed[i].node.Depth = Pushed[j].node.Depth - 1

\* Records of a child and of its own child are pushed.
DepthMonotoneWitness ==
    \E i, j \in 1 .. Len(Pushed) :
      /\ FromChild(Pushed[i])
      /\ FromChild(Pushed[j])
      /\ Pushed[j].inv = ParentOf(Pushed[i].inv)
      /\ Pushed[i].node.Depth = Pushed[j].node.Depth - 1
\* ------------------------------------------------------------ the fetcher
\* The invocations whose Fetch call holds a slot: past f.guard <- struct{}{}
\* and not yet returned.
InFlight == {p \in DOMAIN invs : invs[p].pc = "fetching"}

\* The invocations whose Fetch call has returned.
Returned == {p \in DOMAIN invs : invs[p].path # ""}

\* C11: at most maxConcurrencyPerWorker Fetch calls of the session hold a
\* slot, however many invocations there are, and the guard channel holds
\* exactly one token per Fetch call in flight: every Fetch call that has
\* returned, by whichever return statement, has given its slot back.
ConcurrencyCap ==
    /\ Cardinality(InFlight) <= maxConcurrencyPerWorker
    /\ guard = Cardinality(InFlight)
    /\ \A p \in Returned : invs[p].path \in {"error", "eof", "cap"}

\* Every slot is taken while a fourth invocation waits for one and the
\* root's Fetch call has returned.
ConcurrencyCapWitness ==
    /\ Cardinality(InFlight) = maxConcurrencyPerWorker
    /\ \E p \in DOMAIN invs : invs[p].pc = "acquire"
    /\ Returned # {}

RECURSIVE SumGuards(_, _)
SumGuards(sessions, i) ==
    IF i > Len(sessions) THEN 0 ELSE sessions[i].guard + SumGuards(sessions, i + 1)

\* The Fetch calls in flight in the whole process.
TotalInFlight == SumGuards(proc.sessions, 1)

\* C12 as claimed: over all sessions of the process, at most
\* maxConcurrencyPerWorker Fetch calls are in flight.
GlobalCap == TotalInFlight <= maxConcurrencyPerWorker

\* C12 amended: the guard is made per session, so each session has at most
\* maxConcurrencyPerWorker Fetch calls in flight and the process at most that
\* many per session started.
PerSessionCap ==
    /\ \A i \in 1 .. Len(proc.sessions) :
          proc.sessions[i].guard <= maxConcurrencyPerWorker
    /\ TotalInFlight <= maxConcurrencyPerWorker * Len(proc.sessions)

\* Two sessions, each with every slot of its own guard taken.
PerSessionCapWitness ==
    /\ Len(proc.sessions) = 2
    /\ TotalInFlight = 2 * maxConcurrencyPerWorker

\* C13: while the list holds a record and the sentinel is not yet pushed, the
\* key has a TTL.
TtlWhileCrawling == (Len(rdb.list) >= 1 /\ ~SentinelPushed) => rdb.ttl

\* The sessions started whose root URL is url and whose key is the one
\* GET /crawl/{uniqueID} reads.
SessionsFor(url, uniqueID) ==
    {j \in 1 .. Len(proc.sessions) :
       /\ proc.sessions[j].url = url
       /\ proc.sessions[j].key = ResultsKey(uniqueID)}

\* C14: once main has handled every command published, each 202 response
\* has exactly one session with the URL posted, writing to the key its
\* resultsURL reads; and main has not panicked.
RequestBinding ==
    /\ ~proc.panicked
    /\ proc.commandCh = <<>> =>
         \A i \in 1 .. Len(proc.accepted) :
           Cardinality(SessionsFor(proc.accepted[i].url,
                                   proc.accepted[i].uniqueID)) = 1

\* C15: of any two edge records pushed, the one at the lower index is the
\* one whose Fetch call returned first.
FetchCompletionOrder ==
    \A i, j \in 1 .. Len(EdgeNodes) :
      i < j => EdgeNodes[i].TimeFound < EdgeNodes[j].TimeFound

\* The session of the scenario: the chain web, nothing failing, depth 2.
Scenario == scene = Scene(ChainWeb, {}) /\ rootDepth = 2

ScenarioStream ==
    <<MarshalGraphNode([Parent |-> Example, Children |-> <<Other>>,
                        TimeFound |-> 0, Depth |-> 2]),
      MarshalGraphNode([Parent |-> Other, Children |-> <<Third, Example>>,
                        TimeFound |-> 1, Depth |-> 1]),
      SentinelRecord>>

\* C16: in the scenario the list is at every moment a prefix of the record
\* of example.com (depth 2), the record of other.org (depth 1) and the
\* sentinel, or has expired; it holds all three when the sentinel is pushed;
\* example.com is fetched once and third.net never.
EndToEnd ==
    Scenario =>
      /\ \/ rdb.list = SubSeq(ScenarioStream, 1, Len(rdb.list))
         \/ rdb = NoKey
      /\ Len(Pushed) <= Len(ScenarioStream)
      /\ driver.pc = "expire" => rdb.list = ScenarioStream
      /\ driver.pc = "returned" => Len(Pushed) = Len(ScenarioStream)
      /\ hist.fetchCalls[Example] <= 1
      /\ Len(Pushed) > 0 => hist.fetchCalls[Example] = 1
      /\ hist.fetchCalls[Third] = 0

\* The scenario has run to its end and the list holds the three records.
EndToEndWitness ==
    /\ Scenario
    /\ driver.pc = "returned"
    /\ rdb.list = ScenarioStream

\* The invocations whose Fetch call returned an error.
Failed == {p \in DOMAIN invs : invs[p].path = "error"}

RecordFrom(p) ==
    \/ \E i \in 1 .. Len(Pushed) : Pushed[i].inv = p
    \/ driver.pc = "push" /\ driver.inv = p

ChildrenOf(p) == {q \in DOMAIN invs : q # Root /\ ParentOf(q) = p}

\* C17: an invocation whose Fetch returned an error has no edge record and
\* no children, its URL stays visited and was fetched once, it is on its
\* way to signal its parent or has signalled it exactly once; and under fair
\* scheduling the session still pushes the sentinel and returns.
FetchFailureLocal ==
    /\ [](\A p \in Failed :
            /\ ~RecordFrom(p)
            /\ ChildrenOf(p) = {}
            /\ invs[p].url \in visited
            /\ hist.fetchCalls[invs[p].url] = 1
            /\ invs[p].pc \in {"notify", "done"}
            /\ invs[p].signals = IF invs[p].pc = "done" THEN 1 ELSE 0)
    /\ <>(driver.pc = "returned" /\ SentinelPushed /\ AllInvsDone)

\* A session in which a Fetch failed has returned, with two edge records.
FetchFailureLocalWitness ==
    /\ driver.pc = "returned"
    /\ SentinelPushed
    /\ \E p \in Failed : invs[p].signals = 1
    /\ Len(EdgeNodes) >= 2

\* The invocations that fetched their page and are past the wait loop.
Expanded == {p \in DOMAIN invs : invs[p].path \in {"eof", "cap"}}

PastBarrier(p) == invs[p].pc \in {"notify", "done"}

\* C19: an invocation has sent one signal when it is done and none before,
\* and every invocation is done when crawlHelper received the root's signal;
\* an expanded invocation past its wait loop has counted len(urls) signals,
\* one from each child it spawned; and one with no children is not held in
\* the wait loop.
FanIn ==
    /\ \A p \in DOMAIN invs :
         /\ invs[p].signals = IF invs[p].pc = "done" THEN 1 ELSE 0
         /\ (p \in Expanded /\ PastBarrier(p)) =>
              /\ invs[p].numFin = Len(invs[p].urls)
              /\ Cardinality(ChildrenOf(p)) = Len(invs[p].urls)
              /\ \A q \in ChildrenOf(p) : invs[q].signals = 1
         /\ (invs[p].pc = "wait" /\ Len(invs[p].urls) = 0) => ENABLED WaitBreak(p)
    /\ driver.pc \in {"sentinel", "expire", "returned"} => AllInvsDone

\* A session has returned in which invocations went each way: depth
\* exhausted, already visited, fetch failed, expanded with children, and
\* expanded with none.
FanInWitness ==
    /\ driver.pc = "returned"
    /\ \E p \in DOMAIN invs : invs[p].depth <= 0
    /\ \E p \in DOMAIN invs : invs[p].depth > 0 /\ invs[p].path = ""
    /\ Failed # {}
    /\ \E p \in Expanded : Len(invs[p].urls) >= 2
    /\ \E p \in Expanded : p # Root

\* The links Fetch returns for the page of u.
LinksOf(u) == {FetchLinks(scene, u)[i] : i \in 1 .. Len(FetchLinks(scene, u))}

\* The URLs within k links of the root, links being those Fetch returns.
RECURSIVE Within(_)
Within(k) ==
    IF k <= 0 THEN {Example}
    ELSE LET near == Within(k - 1)
         IN near \cup UNION {LinksOf(u) : u \in near}

\* An invocation with no depth left is leaving Crawl's entry.
ReturnsAtEntry(p) ==
    /\ p \in DOMAIN invs
    /\ invs[p].depth <= 0
    /\ invs[p].pc = "entered"
    /\ invs'[p].pc # "entered"

\* C20: the visited URLs lie within rootDepth links of the root; and an
\* invocation with no depth left goes from its entry straight to its signal,
\* leaving the visited set, the flip and Fetch counts and the records alone.
VisitedBound ==
    /\ [](visited \subseteq Within(rootDepth))
    /\ [](\A p \in DOMAIN invs :
            invs[p].depth <= 0 =>
              /\ invs[p].pc \in {"entered", "notify", "done"}
              /\ ~RecordFrom(p))
    /\ [][\A p \in DOMAIN invs :
            ReturnsAtEntry(p) =>
              /\ invs'[p].pc = "notify"
              /\ visited' = visited
              /\ hist' = hist]_vars

\* An invocation with no depth left is done, its URL is not visited, and two
\* URLs are.
VisitedBoundWitness ==
    /\ Cardinality(visited) >= 2
    /\ \E p \in DOMAIN invs :
         /\ invs[p].depth <= 0
         /\ invs[p].pc = "done"
         /\ invs[p].url \notin visited

\* An href that is an absolute http or https URL whose host has two labels or
\* more, the second from the last being another one than label.
Qualifies(label, href) ==
    /\ ~Parts[href].badEscape
    /\ Parts[href].scheme \in {"http", "https"}
    /\ Parts[href].slashes
    /\ Len(Parts[href].host) >= 2
    /\ Parts[href].host[Len(Parts[href].host) - 1] # label

FirstN(q, n) == SubSeq(q, 1, IF Len(q) < n THEN Len(q) ELSE n)

\* The second-from-last label of the host of a fetched page.
LabelOf(url) == Parts[url].host[Len(Parts[url].host) - 1]

\* C18: the links Fetch returned for a page are, in document order, the
\* first maxLinksScraped hrefs of the page that are absolute http or https
\* URLs with a host of two labels or more whose second-from-last label is
\* not the page's.
CrossDomainFilter ==
    \A p \in Expanded :
      invs[p].urls =
        FirstN(SelectSeq(scene.web[invs[p].url],
                         LAMBDA href : Qualifies(LabelOf(invs[p].url), href)),
               maxLinksScraped)

\* ------------------------------------------------------------ the channels
\* crawlHelper has returned: its deferred close(doneCh), close(graphCh) and
\* close(guard) have run.
DriverClosed == driver.pc = "returned"

\* The channel invocation p sends its signal on is closed.
ParentChanClosed(p) == IF p = Root THEN DriverClosed ELSE invs[ParentOf(p)].closed

\* C21: an invocation that has not yet sent its signal finds its parent's
\* channel open, and the send of a child is possible as soon as it is due
\* (the buffer has room); a doneCh is closed only by an invocation past its
\* wait loop, with len(urls) signals counted, none left in the buffer and
\* every child done; and crawlHelper closes its channels only with every
\* invocation done, no send on graphCh pending and no slot of the guard
\* taken.
ChannelSafety ==
    /\ \A p \in DOMAIN invs :
         /\ invs[p].pc # "done" => ~ParentChanClosed(p)
         /\ (p # Root /\ invs[p].pc = "notify") => ENABLED NotifyParent(p)
         /\ invs[p].closed =>
              /\ PastBarrier(p)
              /\ invs[p].numFin = Len(invs[p].urls)
              /\ invs[p].doneCh = 0
              /\ \A q \in ChildrenOf(p) : invs[q].pc = "done"
    /\ DriverClosed =>
         /\ AllInvsDone
         /\ driver.node = NoNode
         /\ guard = 0
         /\ InFlight = {}

\* crawlHelper has returned after a crawl in which an invocation with two
\* children or more, and one of its children, closed their channels.
ChannelSafetyWitness ==
    /\ DriverClosed
    /\ \E p \in DOMAIN invs :
         /\ invs[p].closed
         /\ Len(invs[p].urls) >= 2
         /\ \E q \in ChildrenOf(p) : invs[q].closed

\* ------------------------------------------------------------ causal order
SeqRange(q) == {q[i] : i \in 1 .. Len(q)}

IsEdgeRecord(raw) == raw # SentinelRecord

\* C22: in the list, and in the sequence of RPushes, the first edge record
\* is the root's, and every later edge record, of parent u and depth d, has
\* before it an edge record of depth d + 1 with u among its children: the
\* record of the invocation that spawned its own.
CausalOrder ==
    /\ \A i \in 1 .. Len(rdb.list) :
         IsEdgeRecord(rdb.list[i]) =>
           IF i = 1
           THEN rdb.list[i].Parent = Example /\ rdb.list[i].Depth = rootDepth
           ELSE \E j \in 1 .. i - 1 :
                  /\ IsEdgeRecord(rdb.list[j])
                  /\ rdb.list[j].Depth = rdb.list[i].Depth + 1
                  /\ rdb.list[i].Parent \in SeqRange(rdb.list[j].Children)
    /\ \A i \in 1 .. Len(Pushed) :
         Pushed[i].inv # FromDriver =>
           IF i = 1
           THEN Pushed[i].inv = Root
           ELSE \E j \in 1 .. i - 1 : Pushed[j].inv = ParentOf(Pushed[i].inv)

\* The list holds the records of the root, of a child and of a child of
\* that child.
CausalOrderWitness ==
    /\ Len(rdb.list) >= 3
    /\ \E i \in 1 .. Len(Pushed) : Len(Pushed[i].inv) = 2
    /\ \E i \in 2 .. Len(rdb.list) :
         IsEdgeRecord(rdb.list[i]) /\ rdb.list[i].Depth = rootDepth - 2

\* ------------------------------------------------------------ coverage
\* Every Fetch of the session succeeds.
AllSucceed == \A u \in Within(rootDepth) : ~FetchErr(scene, u)

\* The URLs whose shortest path from the root has fewer links than the
\* depth of the session.
Covered == IF rootDepth <= 0 THEN {} ELSE Within(rootDepth - 1)

\* The URLs with an edge record.
Recorded == {EdgeNodes[i].Parent : i \in 1 .. Len(EdgeNodes)}

\* C23: when every fetch succeeds, the URLs with an edge record once the
\* sentinel is pushed are those less than rootDepth links from the root,
\* whatever the interleaving.
CoverageFixed == (AllSucceed /\ SentinelPushed) => Recorded = Covered
====
